---- MODULE Spec2Model ----
(***************************************************************************)
(* A model of src/main.py: the ANBIMA client (class anbima_api: the token  *)
(* cache in the credential file and the per-date data request), the        *)
(* volatility estimator and main()'s fetch loop.                           *)
(*                                                                         *)
(* Time is the integer number of seconds datetime.utcnow().timestamp()     *)
(* returns.  A JSON object is a function from the keys it holds to their   *)
(* values; dict.get(k) of an absent key is None.  main() reads the module  *)
(* globals cal, bdays_range and token_file; the script sets bdays_range to *)
(* 10 (line 133), the model runs main() for every offset in 1..MaxOffset.  *)
(***************************************************************************)
EXTENDS Integers, Sequences, FiniteSets, TLC

VARIABLES
    file,        \* the credential file (token_file): readable or not, and its JSON object
    now,         \* the clock read by datetime.utcnow().timestamp()
    token,       \* api.token
    client_id,   \* the module global client_id (declared global in generate_token)
    posts,       \* number of POSTs sent to the token endpoint
    calls,       \* history: one entry per call of generate_token
    pc,          \* main(): "start", "dates", "loop", "volatility", "done", "failed"
    bdays_range, \* the module global bdays_range
    today,       \* the calendar day datetime.today() falls on
    holidays,    \* the holidays of the calendar cal
    dates,       \* the sequence main() iterates over
    i,           \* position of the loop in dates
    gets,        \* history: one entry per GET sent to the data endpoint
    result_df,   \* the local result_df of main()
    output       \* what main() printed

tokenVars == <<file, now, token, client_id, posts, calls>>
runVars == <<pc, bdays_range, today, holidays, dates, i, gets, result_df, output>>
vars == <<file, now, token, client_id, posts, calls,
          pc, bdays_range, today, holidays, dates, i, gets, result_df, output>>

\* ------------------------------------------------------------------ values

None == "None"
Unbound == "Unbound"

\* dict.get(key): the value, or None when the key is absent
Get(d, key) == IF key \in DOMAIN d THEN d[key] ELSE None

\* d[key] = value on a dict: the key is added or overwritten, the rest kept
SetItem(d, key, value) == (key :> value) @@ d

\* the empty dict
EmptyDict == <<>>

\* ------------------------------------------------------------------ bounds

MaxTime == 4
MaxCalls == 2
MaxOffset == 2
MaxHolidays == 2
MaxRecs == 3
LastDay == 18

\* ------------------------------------------------------------------ program constants

Buffer == 60
DefaultExpiresIn == 3600
TradingDays == 252

\* ------------------------------------------------------------------ the environment

\* token_info objects a credential file may hold before the call
TokenInfos ==
    {EmptyDict}
    \cup {[access_token |-> "tokA", expires_at |-> e] : e \in 0..MaxTime}

\* JSON objects of a credential file: client_id, client_secret and token_info
\* may each be absent; "note" stands for any other field of the record
CredObjects ==
    {SetItem(base, "note", "n") : base \in
        {[client_id |-> "id", client_secret |-> "sec"],
         [client_id |-> "id"],
         [client_secret |-> "sec"],
         EmptyDict}}
    \cup
    {SetItem(SetItem(base, "note", "n"), "token_info", ti) : base \in
        {[client_id |-> "id", client_secret |-> "sec"],
         [client_id |-> "id"],
         [client_secret |-> "sec"],
         EmptyDict},
      ti \in TokenInfos}

\* a file that cannot be opened or is not JSON, or a file holding a JSON object
CredFiles ==
    {[readable |-> FALSE, json |-> EmptyDict]}
    \cup {[readable |-> TRUE, json |-> o] : o \in CredObjects}

\* what the token endpoint may answer
TokenBodies ==
    {EmptyDict, [access_token |-> "tokB"]}
    \cup {[expires_in |-> x] : x \in {Buffer - 1, Buffer, Buffer + 1}}
    \cup {[access_token |-> "tokB", expires_in |-> x] : x \in {Buffer - 1, Buffer, Buffer + 1}}

TokenResponses ==
    {[status |-> s, body |-> b] : s \in {200, 201}, b \in TokenBodies}
    \cup {[status |-> 401, body |-> EmptyDict]}

\* ------------------------------------------------------------------ generate_token

\* Python truthiness of a string or None (line 43: "access_token and ...")
Truthy(v) == v # None /\ v # ""

\* mutant of ReadCredentials: the expiry comparison of line 43 inverted
ReadCredentials_Inverted(f, t) ==
    LET opened == f.readable
        gotId == opened /\ "client_id" \in DOMAIN f.json
        gotSecret == gotId /\ "client_secret" \in DOMAIN f.json
        token_info == IF gotSecret /\ "token_info" \in DOMAIN f.json
                      THEN f.json["token_info"] ELSE EmptyDict
        access_token == Get(token_info, "access_token")
        hasExpiry == "expires_at" \in DOMAIN token_info
    IN  [opened |-> opened, gotId |-> gotId, gotSecret |-> gotSecret,
         access_token |-> access_token,
         reuse |-> /\ gotSecret
                   /\ Truthy(access_token)
                   /\ hasExpiry
                   /\ token_info["expires_at"] # 0
                   /\ t > token_info["expires_at"]]

\* lines 34-47: the try block.  What it leaves bound, and whether it returned.
\*   opened      open() and json.load() succeeded: credentials is bound
\*   gotId       line 37 ran: the global client_id is assigned
\*   gotSecret   line 38 ran: the local client_secret is bound
\*   reuse       line 43 holds: the cached token is taken and the call returns
ReadCredentials(f, t) ==
    LET opened == f.readable
        gotId == opened /\ "client_id" \in DOMAIN f.json
        gotSecret == gotId /\ "client_secret" \in DOMAIN f.json
        token_info == IF gotSecret /\ "token_info" \in DOMAIN f.json
                      THEN f.json["token_info"] ELSE EmptyDict
        access_token == Get(token_info, "access_token")
        hasExpiry == "expires_at" \in DOMAIN token_info
    IN  [opened |-> opened, gotId |-> gotId, gotSecret |-> gotSecret,
         access_token |-> access_token,
         reuse |-> /\ gotSecret
                   /\ Truthy(access_token)
                   /\ hasExpiry
                   /\ token_info["expires_at"] # 0
                   /\ t < token_info["expires_at"]]

\* mutant of ExpiresAt: the lifetime is stored, not the instant it ends
ExpiresAt_Relative(body, t) ==
    LET expires_in == IF "expires_in" \in DOMAIN body THEN body["expires_in"]
                      ELSE DefaultExpiresIn
    IN  expires_in - Buffer

\* line 58 and line 62: the expiry written with the new token, read at time t
ExpiresAt(body, t) ==
    LET expires_in == IF "expires_in" \in DOMAIN body THEN body["expires_in"]
                      ELSE DefaultExpiresIn
    IN  t + expires_in - Buffer

\* mutant of Refreshed: the file is overwritten with the token alone
Refreshed_TokenOnly(credentials, body, t) ==
    [token_info |-> [access_token |-> Get(body, "access_token"),
                     expires_at |-> ExpiresAt(body, t)]]

\* lines 60-63: the record written back
Refreshed(credentials, body, t) ==
    SetItem(credentials, "token_info",
            [access_token |-> Get(body, "access_token"),
             expires_at |-> ExpiresAt(body, t)])

\* The whole of generate_token (lines 31-67), called at time now; resp is the
\* token endpoint's answer if it is asked and d the time the request takes.
\* outcome: "reused" (line 45), "refreshed" (line 65), "auth_error" (line 67),
\* "name_error" (line 54 reads client_id or client_secret before either is bound).
GenerateToken(resp, d) ==
    LET r == ReadCredentials(file, now)
        id == IF r.gotId THEN file.json["client_id"] ELSE client_id
        canPost == id # Unbound /\ r.gotSecret
        ok == resp.status \in {200, 201}
        outcome == IF r.reuse THEN "reused"
                   ELSE IF ~canPost THEN "name_error"
                   ELSE IF ok THEN "refreshed"
                   ELSE "auth_error"
        t2 == IF outcome \in {"refreshed", "auth_error"} THEN now + d ELSE now
    IN  /\ t2 <= MaxTime
        /\ client_id' = id
        /\ now' = t2
        /\ posts' = IF outcome \in {"refreshed", "auth_error"} THEN posts + 1 ELSE posts
        /\ token' = CASE outcome = "reused" -> r.access_token
                      [] outcome = "refreshed" -> Get(resp.body, "access_token")
                      [] OTHER -> token
        /\ file' = IF outcome = "refreshed"
                   THEN [file EXCEPT !.json = Refreshed(file.json, resp.body, t2)]
                   ELSE file
        /\ calls' = Append(calls,
                           [outcome |-> outcome, at |-> now, end |-> t2,
                            before |-> file, after |-> file',
                            posted |-> posts' - posts,
                            body |-> IF outcome = "refreshed" THEN resp.body ELSE EmptyDict,
                            token |-> token'])

\* ------------------------------------------------------------------ the business-day calendar

\* Days are numbered from 0, a Monday; the calendar cal covers 0..LastDay + 1.
\* cal is the bizdays calendar "ANBIMA": Saturdays, Sundays and the holidays
\* are no business days.
IsBizday(d, hol) == d % 7 \notin {5, 6} /\ d \notin hol

\* the latest business day not after d
Preceding(d, hol) ==
    CHOOSE b \in 0..d : IsBizday(b, hol) /\ \A c \in (b + 1)..d : ~IsBizday(c, hol)

\* cal.offset(d, n) for n < 0: d is moved to the preceding business day when it
\* is none, then -n business days back
Offset(d, n, hol) ==
    LET start == Preceding(d, hol)
    IN  CHOOSE b \in 0..start :
            /\ IsBizday(b, hol)
            /\ Cardinality({c \in (b + 1)..start : IsBizday(c, hol)}) = 0 - n

\* cal.seq(from, to): the business days from..to, ascending
Seq_(from, to, hol) ==
    LET S == {d \in from..to : IsBizday(d, hol)}
    IN  [k \in 1..Cardinality(S) |->
            CHOOSE d \in S : Cardinality({e \in S : e < d}) = k - 1]

\* mutant of DatesOfRun: the offset taken forward instead of back
DatesOfRun_Forward(t1, t2, n, hol) ==
    Seq_(t1 + n, t2, hol)

\* line 108: cal.seq(cal.offset(datetime.today(), -bdays_range), datetime.today()),
\* t1 and t2 being the days of the first and the second datetime.today()
DatesOfRun(t1, t2, n, hol) ==
    Seq_(Offset(t1, 0 - n, hol), t2, hol)

\* date.strftime('%Y-%m-%d'): the day as text
Strftime(d) == ToString(d)

\* ------------------------------------------------------------------ the data endpoint

\* The vendor's book: bond k has a type and a maturity; taxa_indicativa is in
\* tenths of a percent (50 is "5.0").
Tipo(k) == IF k % 4 \in {2, 3} THEN "LTN" ELSE "NTN-B"
Venc(k) == IF k % 4 \in {1, 2} THEN "M1" ELSE "M2"
Taxas(k) == IF Tipo(k) = "LTN" THEN {50, 51} ELSE {50}

Quotes(k) ==
    {[tipo_titulo |-> Tipo(k), data_vencimento |-> Venc(k), taxa_indicativa |-> x] :
        x \in Taxas(k)}

\* the JSON lists the endpoint may return for a date: the first n bonds, n >= 0
QuoteLists ==
    UNION {{l \in [1..n -> UNION {Quotes(k) : k \in 1..n}] :
                \A k \in 1..n : l[k] \in Quotes(k)} : n \in 0..MaxRecs}

\* a response body: a JSON list, or a single JSON object (kept as its one record)
RichData ==
    {[isList |-> TRUE, items |-> l] : l \in QuoteLists}
    \cup {[isList |-> FALSE, items |-> <<q>>] : q \in Quotes(2)}

SmallData ==
    {[isList |-> TRUE, items |-> <<>>]}
    \cup {[isList |-> FALSE, items |-> <<q>>] : q \in Quotes(1)}

RecordFields == {"tipo_titulo", "data_vencimento", "taxa_indicativa"}

\* ------------------------------------------------------------------ tables

\* result_df before its first assignment ('result_df' not in locals())
NoFrame == [bound |-> FALSE, columns |-> {}, rows |-> <<>>]

\* nothing printed yet
NoOutput == [printed |-> FALSE, sigma |-> <<>>]

\* lines 112-116: pd.DataFrame(data) for a list, pd.DataFrame([data]) for an
\* object, then the column data_referencia set to the date on every row.  The
\* frame of an empty list has no column but data_referencia.
DataFrame(data, date) ==
    [bound |-> TRUE,
     columns |-> (IF data.items = <<>> THEN {} ELSE RecordFields) \cup {"data_referencia"},
     rows |-> [k \in 1..Len(data.items) |->
                 [tipo_titulo |-> data.items[k].tipo_titulo,
                  data_vencimento |-> data.items[k].data_vencimento,
                  taxa_indicativa |-> data.items[k].taxa_indicativa,
                  data_referencia |-> date]]]

\* mutant of Accumulate: the new frame is put before the accumulated one
Accumulate_Prepend(acc, df) ==
    IF ~acc.bound THEN df
    ELSE [bound |-> TRUE,
          columns |-> acc.columns \cup df.columns,
          rows |-> df.rows \o acc.rows]

\* lines 117-120: the first frame is taken as it is, a later one is appended
\* (pd.concat(..., ignore_index=True): rows in order, columns united)
Accumulate(acc, df) ==
    IF ~acc.bound THEN df
    ELSE [bound |-> TRUE,
          columns |-> acc.columns \cup df.columns,
          rows |-> acc.rows \o df.rows]

\* ------------------------------------------------------------------ volatility

\* np.log(1 + x / 100) in units of 1e-4, x in tenths of a percent:
\* ln 1.050 = 0.04879, ln 1.051 = 0.04974, ln 1.052 = 0.05069
LogFactor(x) ==
    CASE x = 50 -> 488
      [] x = 51 -> 497
      [] x = 52 -> 507

RECURSIVE Sum(_)
Sum(s) == IF s = <<>> THEN 0 ELSE Head(s) + Sum(Tail(s))

\* Series.diff() without its leading NaN, which std() skips
Diffs(s) == [k \in 1..(Len(s) - 1) |-> s[k + 1] - s[k]]

NaN == [nan |-> TRUE, num |-> 0, den |-> 1]

\* mutant of Std: the population deviation (ddof = 0), defined for one value
Std_Population(ds) ==
    LET k == Len(ds)
    IN  IF k < 1 THEN NaN
        ELSE [nan |-> FALSE,
              num |-> TradingDays * (k * Sum([j \in 1..k |-> ds[j] * ds[j]]) - Sum(ds) * Sum(ds)),
              den |-> k * k]

\* Series.std() * np.sqrt(252) of the k values ds, as the square of the result:
\* 252 * (k * sum d^2 - (sum d)^2) / (k * (k - 1)), in units of 1e-8.  The
\* sample deviation (ddof = 1) of fewer than 2 values is NaN.
Std(ds) ==
    LET k == Len(ds)
    IN  IF k < 2 THEN NaN
        ELSE [nan |-> FALSE,
              num |-> TradingDays * (k * Sum([j \in 1..k |-> ds[j] * ds[j]]) - Sum(ds) * Sum(ds)),
              den |-> k * (k - 1)]

Matching(rows, asset_tp) == SelectSeq(rows, LAMBDA r : r.tipo_titulo = asset_tp)

Group(rows, maturity) == SelectSeq(rows, LAMBDA r : r.data_vencimento = maturity)

\* volatility(df, asset_tp), lines 88-94.  df['tipo_titulo'] raises KeyError on a
\* frame without that column.
Volatility(df, asset_tp) ==
    IF "tipo_titulo" \notin df.columns
    THEN [error |-> TRUE, sigma |-> <<>>]
    ELSE LET m == Matching(df.rows, asset_tp)
             unique == {m[k].data_vencimento : k \in 1..Len(m)}
         IN  [error |-> FALSE,
              sigma |-> [maturity \in unique |->
                  LET g == Group(m, maturity)
                  IN  Std(Diffs([k \in 1..Len(g) |-> LogFactor(g[k].taxa_indicativa)]))]]

\* ------------------------------------------------------------------ main()

\* mutant of CanSend: the request is sent whatever api.token holds
CanSend_Always(tok) == TRUE

\* line 70: get_data_by_date refuses to send when api.token is not set
CanSend(tok) == Truthy(tok)

\* mutant of AfterGet: a date whose answer is not 200 is tried again
AfterGet_Retry(status, k, n) ==
    IF status # 200 THEN "loop"
    ELSE IF k = n THEN "volatility"
    ELSE "loop"

\* lines 79-82 and the for of line 108: where main() stands after the answer to
\* the k-th of n dates
AfterGet(status, k, n) ==
    IF status # 200 THEN "failed"
    ELSE IF k = n THEN "volatility"
    ELSE "loop"

\* lines 103-105: api = anbima_api(token_file); api.generate_token()
MainGenerateToken ==
    /\ pc = "start"
    /\ \E resp \in TokenResponses, d \in 0..1 :
          /\ GenerateToken(resp, d)
          /\ pc' = IF calls'[Len(calls')].outcome \in {"reused", "refreshed"}
                   THEN "dates" ELSE "failed"
    /\ UNCHANGED <<bdays_range, today, holidays, dates, i, gets, result_df, output>>

\* line 108: the sequence the for statement iterates over; the second
\* datetime.today() may fall on the next day
ComputeDates ==
    /\ pc = "dates"
    /\ \E t2 \in {today, today + 1} :
          /\ t2 <= LastDay + 1
          /\ today' = t2
          /\ dates' = DatesOfRun(today, t2, bdays_range, holidays)
    /\ i' = 1
    /\ pc' = IF dates' = <<>> THEN "volatility" ELSE "loop"
    /\ UNCHANGED <<bdays_range, holidays, gets, result_df, output>>
    /\ UNCHANGED tokenVars

\* lines 109-120, one turn of the loop: the GET for dates[i] (lines 69-82) and
\* the row assembly.  Data is the set of bodies the endpoint may answer with.
FetchDate(Data) ==
    /\ pc = "loop"
    /\ LET datetime_str == Strftime(dates[i])
       IN  IF ~CanSend(token)
           THEN /\ pc' = "failed"
                /\ UNCHANGED <<i, gets, result_df>>
           ELSE \E status \in {200, 500}, data \in Data :
                   /\ gets' = Append(gets,
                                 [date |-> datetime_str, token |-> token, at |-> now,
                                  status |-> status,
                                  data |-> IF status = 200 THEN data
                                           ELSE [isList |-> TRUE, items |-> <<>>]])
                   /\ pc' = AfterGet(status, i, Len(dates))
                   /\ i' = IF status = 200 THEN i + 1 ELSE i
                   /\ result_df' = IF status = 200
                                   THEN Accumulate(result_df, DataFrame(data, datetime_str))
                                   ELSE result_df
    /\ UNCHANGED <<bdays_range, today, holidays, dates, output>>
    /\ UNCHANGED tokenVars

\* lines 121-122: result = volatility(result_df, 'LTN'); print(result)
PrintVolatility ==
    /\ pc = "volatility"
    /\ LET result == IF result_df.bound THEN Volatility(result_df, "LTN")
                     ELSE [error |-> TRUE, sigma |-> <<>>]
       IN  IF result.error
           THEN pc' = "failed" /\ output' = output
           ELSE pc' = "done" /\ output' = [printed |-> TRUE, sigma |-> result.sigma]
    /\ UNCHANGED <<bdays_range, today, holidays, dates, i, gets, result_df>>
    /\ UNCHANGED tokenVars

\* a second passes
Tick ==
    /\ now < MaxTime
    /\ now' = now + 1
    /\ UNCHANGED <<file, token, client_id, posts, calls>>
    /\ UNCHANGED runVars

\* ------------------------------------------------------------------ a run of main()

\* the calendars and days a run may start in
Weekdays == {d \in (LastDay - 8)..(LastDay + 1) : d % 7 \notin {5, 6}}
HolidaySets == {h \in SUBSET Weekdays : Cardinality(h) <= MaxHolidays}
Todays == (LastDay - 6)..LastDay

InitRun(Files, Days, Hols, Offsets) ==
    /\ file \in Files
    /\ now = 1
    /\ token = None
    /\ client_id = Unbound
    /\ posts = 0
    /\ calls = <<>>
    /\ pc = "start"
    /\ bdays_range \in Offsets
    /\ today \in Days
    /\ holidays \in Hols
    /\ dates = <<>>
    /\ i = 1
    /\ gets = <<>>
    /\ result_df = NoFrame
    /\ output = NoOutput

\* a credential record holding a token that outlasts the run
GoodFile ==
    [readable |-> TRUE,
     json |-> [client_id |-> "id", client_secret |-> "sec", note |-> "n",
               token_info |-> [access_token |-> "tokA", expires_at |-> MaxTime + 1]]]

\* the whole run, for every credential file, with small data
Init == InitRun(CredFiles, {LastDay - 1}, {{}, {LastDay - 2}}, 1..MaxOffset)

Next ==
    \/ MainGenerateToken
    \/ ComputeDates
    \/ FetchDate(SmallData)
    \/ PrintVolatility
    \/ Tick

Spec == Init /\ [][Next]_vars

\* the date sequence, for every day and calendar
InitCal == InitRun({GoodFile}, Todays, HolidaySets, 1..MaxOffset)

NextCal == MainGenerateToken \/ ComputeDates

SpecCal == InitCal /\ [][NextCal]_vars

\* the assembly and the estimator, for every answer of the data endpoint
InitData == InitRun({GoodFile}, {LastDay - 1}, {{}}, {MaxOffset})

NextData ==
    \/ MainGenerateToken
    \/ ComputeDates
    \/ FetchDate(RichData)
    \/ PrintVolatility

SpecData == InitData /\ [][NextData]_vars

\* ------------------------------------------------------------------ the api object alone

InitToken == InitRun(CredFiles, {LastDay}, {{}}, {1})

\* generate_token called on the api object, as often as MaxCalls allows
CallGenerateToken ==
    /\ Len(calls) < MaxCalls
    /\ \E resp \in TokenResponses, d \in 0..1 : GenerateToken(resp, d)
    /\ UNCHANGED runVars

NextToken == CallGenerateToken \/ Tick

SpecToken == InitToken /\ [][NextToken]_vars

\* ------------------------------------------------------------------ claims on generate_token

\* the file is a credential record as section 3 of the specification describes
\* it: readable JSON with client_id and client_secret
IsRecord(f) ==
    /\ f.readable
    /\ {"client_id", "client_secret"} \subseteq DOMAIN f.json

\* the record holds a cached access token with an expiry
HoldsToken(f) ==
    /\ IsRecord(f)
    /\ "token_info" \in DOMAIN f.json
    /\ DOMAIN f.json["token_info"] = {"access_token", "expires_at"}
    /\ Truthy(f.json["token_info"]["access_token"])

CachedExpiry(f) == f.json["token_info"]["expires_at"]

Calls == {calls[k] : k \in 1..Len(calls)}

\* C1: a call that finds a credential record holding a cached token with
\* expires_at strictly greater than the time of the call sets api.token to the
\* cached token and returns: no request to the token endpoint, no write of the file.
C1_ReuseUnexpired ==
    \A c \in Calls :
        (HoldsToken(c.before) /\ CachedExpiry(c.before) > c.at)
        => /\ c.outcome = "reused"
           /\ c.token = c.before.json["token_info"]["access_token"]
           /\ c.posted = 0
           /\ c.after = c.before

C1_Witness ==
    \E c \in Calls :
        /\ HoldsToken(c.before)
        /\ CachedExpiry(c.before) > c.at
        /\ c.outcome = "reused"
        /\ c.token = "tokA"

\* the expires_in the code takes from a response body: 3600 when absent
ExpiresInOf(body) ==
    IF "expires_in" \in DOMAIN body THEN body["expires_in"] ELSE DefaultExpiresIn

\* C2: a call that finds a cached token with expires_at <= the time of the call
\* sends exactly one request to the token endpoint; when the answer is 200 or
\* 201 the record left in the file equals the previous one except for
\* token_info, which is {access_token: the token of the answer,
\* expires_at: t + expires_in - 60}, t being the clock when the answer is
\* stored and expires_in 3600 when absent.
C2_RefreshPersists ==
    \A c \in Calls :
        (HoldsToken(c.before) /\ CachedExpiry(c.before) <= c.at)
        => /\ c.outcome \in {"refreshed", "auth_error"}
           /\ c.posted = 1
           /\ c.outcome = "refreshed"
              => /\ c.after.readable
                 /\ DOMAIN c.after.json = DOMAIN c.before.json
                 /\ \A k \in DOMAIN c.before.json \ {"token_info"} :
                        c.after.json[k] = c.before.json[k]
                 /\ c.after.json["token_info"]
                        = [access_token |-> Get(c.body, "access_token"),
                           expires_at |-> c.end + ExpiresInOf(c.body) - 60]
                 /\ c.token = Get(c.body, "access_token")

C2_Witness ==
    \E c \in Calls :
        /\ HoldsToken(c.before)
        /\ CachedExpiry(c.before) = c.at
        /\ c.outcome = "refreshed"
        /\ "expires_in" \notin DOMAIN c.body
        /\ c.end > c.at

\* call k refreshed the token and call k+1 follows with no time in between
Immediate(k) ==
    /\ calls[k].outcome = "refreshed"
    /\ calls[k + 1].at = calls[k].end

RoundTrip(k) ==
    /\ calls[k + 1].outcome = "reused"
    /\ calls[k + 1].token = calls[k].token
    /\ calls[k + 1].posted = 0

\* C3 as stated: after any successful refresh, whatever access_token and
\* expires_in were returned, an immediate second call returns the same token
\* and sends no second request.
C3_RoundTripAny ==
    \A k \in 1..(Len(calls) - 1) : Immediate(k) => RoundTrip(k)

\* C3, amended: after a successful refresh whose answer carried a non-empty
\* access_token and an expires_in greater than the 60 s buffer (or none, so
\* 3600), an immediate second call returns the same token and sends no second
\* request.
C3_RoundTrip ==
    \A k \in 1..(Len(calls) - 1) :
        (/\ Immediate(k)
         /\ Truthy(Get(calls[k].body, "access_token"))
         /\ ExpiresInOf(calls[k].body) > 60)
        => RoundTrip(k)

C3_Witness ==
    \E k \in 1..(Len(calls) - 1) :
        /\ Immediate(k)
        /\ calls[k].body = [access_token |-> "tokB", expires_in |-> 61]
        /\ RoundTrip(k)
        /\ calls[k + 1].token = "tokB"

\* the file is missing or corrupt: unreadable, or lacking an expected field
Corrupt(f) ==
    \/ ~f.readable
    \/ ~({"client_id", "client_secret", "token_info"} \subseteq DOMAIN f.json)

\* C4: a call that finds the credential file missing or corrupt does not fail:
\* it asks the token endpoint, and on 200/201 it ends with the new token set
\* and persisted.
C4_ReadErrorFallsThrough ==
    \A c \in Calls :
        Corrupt(c.before)
        => /\ c.outcome \in {"refreshed", "auth_error"}
           /\ c.posted = 1
           /\ (c.outcome = "refreshed"
               => c.after.json["token_info"]["access_token"] = c.token)

\* ------------------------------------------------------------------ claims on main()

Started == pc \notin {"start", "dates"}

\* C5: the dates are requested one at a time in the order of the sequence,
\* which is ascending: the k-th request is for the k-th date, so none is skipped
\* or asked twice; an answer other than 200 is the last request of the run, the
\* run has failed and nothing is printed.
C5_AbortOnFailure ==
    /\ Len(gets) <= Len(dates)
    /\ \A k \in 1..Len(gets) : gets[k].date = Strftime(dates[k])
    /\ \A k \in 1..(Len(dates) - 1) : dates[k] < dates[k + 1]
    /\ \A k \in 1..Len(gets) :
          gets[k].status # 200
          => /\ k = Len(gets)
             /\ pc = "failed"
             /\ ~output.printed

C5_Witness ==
    /\ pc = "failed"
    /\ Len(gets) = 2
    /\ Len(dates) > 2
    /\ gets[1].status = 200
    /\ gets[2].status = 500
    /\ now > gets[2].at

\* C6 as stated: whatever day today is, the sequence is strictly ascending and
\* its last element is today.
C6_LastIsToday ==
    Started
    => /\ \A k \in 1..(Len(dates) - 1) : dates[k] < dates[k + 1]
       /\ dates # <<>>
       /\ dates[Len(dates)] = today

\* C6, amended: the sequence is strictly ascending (so without duplicates) and
\* holds business days only; its last element is the latest business day not
\* after today, which is today exactly when today is a business day.
C6_BusinessDaysUpToToday ==
    Started
    => /\ \A k \in 1..(Len(dates) - 1) : dates[k] < dates[k + 1]
       /\ \A k \in 1..Len(dates) : IsBizday(dates[k], holidays)
       /\ dates # <<>>
       /\ dates[Len(dates)] <= today
       /\ \A d \in (dates[Len(dates)] + 1)..today : ~IsBizday(d, holidays)
       /\ (IsBizday(today, holidays) => dates[Len(dates)] = today)

C6_Witness ==
    /\ Started
    /\ today \in holidays
    /\ dates # <<>>
    /\ dates[Len(dates)] < today
    /\ Len(dates) = bdays_range + 1

\* the number of rows the first k answers hold
RECURSIVE RowsBefore(_)
RowsBefore(k) == IF k = 0 THEN 0 ELSE RowsBefore(k - 1) + Len(gets[k].data.items)

\* C7: the table is the per-date records in date order: as many rows as the
\* answers hold records, the j-th record of the k-th answer at row
\* (records of the answers before k) + j with the date of that request, and an
\* empty answer adds no row and does not stop the run.
C7_Assembled ==
    /\ result_df.bound
       => /\ Len(result_df.rows) = RowsBefore(Len(gets))
          /\ \A k \in 1..Len(gets) : \A j \in 1..Len(gets[k].data.items) :
                LET row == result_df.rows[RowsBefore(k - 1) + j]
                    rec == gets[k].data.items[j]
                IN  /\ row.data_referencia = gets[k].date
                    /\ row.tipo_titulo = rec.tipo_titulo
                    /\ row.data_vencimento = rec.data_vencimento
                    /\ row.taxa_indicativa = rec.taxa_indicativa
    /\ (gets # <<>> /\ gets[Len(gets)].status = 200)
       => /\ result_df.bound
          /\ i = Len(gets) + 1
          /\ (i <= Len(dates) => pc = "loop")

C7_Witness ==
    /\ Len(gets) = 3
    /\ Len(gets[1].data.items) = 2
    /\ gets[2].status = 200
    /\ Len(gets[2].data.items) = 0
    /\ Len(gets[3].data.items) = 3
    /\ Len(result_df.rows) = 5
    /\ result_df.rows[3].data_referencia = gets[3].date

\* the rates of the rows of type LTN and the given maturity, in table order
Observations(maturity) ==
    LET g == SelectSeq(result_df.rows,
                 LAMBDA r : r.tipo_titulo = "LTN" /\ r.data_vencimento = maturity)
    IN  [k \in 1..Len(g) |-> g[k].taxa_indicativa]

Abs(x) == IF x < 0 THEN 0 - x ELSE x

\* C8 as stated: a maturity with exactly two observations r1, r2 gets the
\* number |ln(1 + r2/100) - ln(1 + r1/100)| * sqrt(252), and not-a-number
\* occurs only with fewer than 2 observations.  (Values are compared squared.)
C8_TwoObservationsDefined ==
    pc = "done"
    => \A m \in DOMAIN output.sigma :
          LET o == Observations(m)
              v == output.sigma[m]
          IN  /\ v.nan => Len(o) < 2
              /\ Len(o) = 2
                 => /\ ~v.nan
                    /\ v.num = v.den * 252
                               * Abs(LogFactor(o[2]) - LogFactor(o[1]))
                               * Abs(LogFactor(o[2]) - LogFactor(o[1]))

\* C8, amended: a maturity with exactly two observations gets not-a-number: the
\* two observations give one difference and the sample deviation of one value
\* is undefined.  Not-a-number occurs exactly for fewer than 3 observations;
\* three observations with differences d1, d2 give |d1 - d2| / sqrt(2) * sqrt(252).
C8_TwoObservationsNaN ==
    pc = "done"
    => \A m \in DOMAIN output.sigma :
          LET o == Observations(m)
              v == output.sigma[m]
              d1 == LogFactor(o[2]) - LogFactor(o[1])
              d2 == LogFactor(o[3]) - LogFactor(o[2])
          IN  /\ v.nan <=> Len(o) < 3
              /\ Len(o) = 2 => v.nan
              /\ Len(o) = 3 => v.num * 2 = v.den * 252 * (d1 - d2) * (d1 - d2)

C8_Witness ==
    /\ pc = "done"
    /\ \E m \in DOMAIN output.sigma :
          /\ Observations(m) = <<50, 51>>
          /\ output.sigma[m].nan
    /\ \E m \in DOMAIN output.sigma :
          /\ Len(Observations(m)) = 3
          /\ output.sigma[m].num > 0

\* every date of the sequence has been answered 200
AllFetched == dates # <<>> /\ i = Len(dates) + 1

\* C9: when no row of the assembled table has type LTN, the empty table of a
\* run whose answers were all empty included, volatility returns the empty
\* mapping and raises nothing; the keys of a result are the maturities of the
\* rows of type LTN.
C9_NoMatchEmptyMapping ==
    (AllFetched /\ pc \in {"done", "failed"})
    => /\ pc = "done"
       /\ output.printed
       /\ DOMAIN output.sigma =
             {result_df.rows[k].data_vencimento :
                 k \in {j \in 1..Len(result_df.rows) : result_df.rows[j].tipo_titulo = "LTN"}}

\* the expiry of the token the credential file holds
FileExpiry == file.json["token_info"]["expires_at"]

\* C10 as stated: the k-th request follows a k-th call of generate_token, and
\* carries a token that is set and not expired when the request is sent.
C10_TokenCheckedPerDate ==
    \A k \in 1..Len(gets) :
        /\ Len(calls) >= k
        /\ Truthy(gets[k].token)
        /\ gets[k].at < FileExpiry

\* C10, amended: generate_token is called once, before the first request, and
\* every request carries the non-empty token that call set; the token is not
\* checked again, whatever time has passed.
C10_TokenSetOnce ==
    /\ pc # "start" => Len(calls) = 1
    /\ \A k \in 1..Len(gets) :
          /\ calls[1].outcome \in {"reused", "refreshed"}
          /\ calls[1].end <= gets[k].at
          /\ gets[k].token = calls[1].token
          /\ Truthy(gets[k].token)

C10_Witness ==
    /\ Len(gets) = 2
    /\ calls[1].outcome = "reused"
    /\ gets[1].at < FileExpiry
    /\ gets[2].at >= FileExpiry

====
